---- MODULE Spec2Model ----
(***************************************************************************)
(* State-machine model of src/src/YieldFarm.sol (contract YieldFarm).      *)
(*                                                                         *)
(* Every external function of the contract is one action.  A call either   *)
(* completes and commits its writes, or reverts; a reverted call leaves    *)
(* the contract storage and the token balances untouched (EVM atomicity),  *)
(* so it is no step of the machine.  For each function an operator         *)
(* <Function>Reason gives the outcome of a call in the current state: "ok" *)
(* or the reason of the revert, in the order the code tests them.  The     *)
(* variable `emitted` holds the events the most recent step appended to    *)
(* the contract's log (empty after a call that emits none and after a new  *)
(* block).                                                                 *)
(*                                                                         *)
(* Pool ids are 1-based here (poolInfo is a TLA+ sequence); pid p of the   *)
(* model is index p-1 of the Solidity array.                               *)
(*                                                                         *)
(* Integers are unbounded uint256 in the contract; the model keeps every   *)
(* quantity far below 2^256, so checked-arithmetic overflow never occurs.  *)
(* Underflow of a subtraction and division by zero do occur and are        *)
(* modelled as reverts.  The fixed-point scale 1e12 of the contract is     *)
(* represented by ACC_PRECISION, scaled down so that the products stay     *)
(* inside the model checker's integer range.                               *)
(***************************************************************************)
EXTENDS Integers, Sequences, FiniteSets, TLC

\* ---------------------------------------------------------------- bounds
MaxBlock == 3        \* block.number ranges over 0..MaxBlock
MaxPools == 2        \* addPool is explored until the registry holds MaxPools
MaxAlloc == 1        \* allocation points passed to addPool / setPool
MaxRate == 2         \* rewardPerBlock values 1..MaxRate
MaxAmt == 2          \* amounts passed to deposit / withdraw: 0..MaxAmt
MaxUnit == 12        \* block numbers given to getMultiplier: 0..MaxUnit
InitBal == 2         \* tokens of each kind every user starts with
InitReserve == 2     \* reward tokens the farm is funded with at deployment
StartBlock == 1      \* constructor argument _startBlock
BonusBlocks == 1     \* constructor argument _bonusEndBlock = _startBlock + BonusBlocks

\* ------------------------------------------------------ program constants
BONUS_MULTIPLIER == 2
ACC_PRECISION == 1000000

\* ------------------------------------------------------------ input sets
Owner == "owner"
Users == {"u1", "u2"}
Callers == Users \cup {Owner}
Farm == "farm"
Holders == Users \cup {Farm}
RewardToken == "RWD"
Tokens == {"LP", RewardToken}
StakeLimits == {<<1, 2>>, <<2, 2>>}

VARIABLES
    blockNumber,      \* block.number
    blockTimestamp,   \* block.timestamp
    startBlock,
    bonusEndBlock,
    rewardPerBlock,
    totalAllocPoint,
    paused,           \* Pausable._paused
    poolInfo,         \* sequence of PoolInfo records
    userInfo,         \* userInfo[pid][user], a UserInfo record
    balances,         \* balances[token][holder] of the ERC-20 tokens
    emitted           \* events emitted by the most recent call, in order

cvars == <<startBlock, bonusEndBlock, rewardPerBlock, totalAllocPoint, paused,
           poolInfo, userInfo, balances>>
vars == <<blockNumber, blockTimestamp, startBlock, bonusEndBlock, rewardPerBlock,
          totalAllocPoint, paused, poolInfo, userInfo, balances, emitted>>

ZeroUser == [amount |-> 0, rewardDebt |-> 0, pendingRewards |-> 0, lastStakeTime |-> 0]

Pids == 1..Len(poolInfo)

\* event Deposit / Withdraw / EmergencyWithdraw / RewardPaid (user, pid, amount)
Event(name, user, pid, amount) ==
    [name |-> name, user |-> user, pid |-> pid, amount |-> amount]

\* ------------------------------------------------------- AccrualEngine
\* faulty variant: the bonus is applied to the whole range when it starts
\* inside the bonus period
getMultiplierAtWholeBonus(bonusEnd, from, to) ==
    IF from < bonusEnd THEN (to - from) * BONUS_MULTIPLIER
    ELSE to - from

\* faulty variant: a range that straddles the end of the bonus loses the
\* blocks after it
getMultiplierAtDropsTail(bonusEnd, from, to) ==
    IF to <= bonusEnd THEN (to - from) * BONUS_MULTIPLIER
    ELSE IF from >= bonusEnd THEN to - from
    ELSE (bonusEnd - from) * BONUS_MULTIPLIER

\* getMultiplier as a function of its arguments and of the stored bonusEndBlock
getMultiplierAt(bonusEnd, from, to) ==
    IF to <= bonusEnd THEN (to - from) * BONUS_MULTIPLIER
    ELSE IF from >= bonusEnd THEN to - from
    ELSE (bonusEnd - from) * BONUS_MULTIPLIER + (to - bonusEnd)

getMultiplier(from, to) == getMultiplierAt(bonusEndBlock, from, to)

\* updatePool divides by totalAllocPoint: Panic(0x12) when it is 0
UpdatePoolReverts(pool) ==
    /\ blockNumber > pool.lastRewardBlock
    /\ pool.totalStaked # 0
    /\ totalAllocPoint = 0

\* updatePool, lines 139-140, as a function of block.number
TokenRewardAt(now, pool) ==
    (getMultiplier(pool.lastRewardBlock, now) * rewardPerBlock * pool.allocPoint)
        \div totalAllocPoint

TokenReward(pool) == TokenRewardAt(blockNumber, pool)

\* faulty variant: the increment of the accumulator is rounded up
UpdatedPoolAtRoundsUp(now, pool) ==
    IF now <= pool.lastRewardBlock THEN pool
    ELSE IF pool.totalStaked = 0 THEN [pool EXCEPT !.lastRewardBlock = now]
    ELSE [pool EXCEPT
            !.accTokenPerShare = pool.accTokenPerShare
                                  + (TokenRewardAt(now, pool) * ACC_PRECISION
                                       + pool.totalStaked - 1) \div pool.totalStaked,
            !.lastRewardBlock = now]

\* updatePool, lines 130-144, as a function of block.number
UpdatedPoolAt(now, pool) ==
    IF now <= pool.lastRewardBlock THEN pool
    ELSE IF pool.totalStaked = 0 THEN [pool EXCEPT !.lastRewardBlock = now]
    ELSE [pool EXCEPT
            !.accTokenPerShare = pool.accTokenPerShare
                                  + (TokenRewardAt(now, pool) * ACC_PRECISION) \div pool.totalStaked,
            !.lastRewardBlock = now]

\* faulty variant: settling an empty pool clears its accumulator
UpdatedPoolClearsEmpty(pool) ==
    IF blockNumber <= pool.lastRewardBlock THEN pool
    ELSE IF pool.totalStaked = 0
         THEN [pool EXCEPT !.lastRewardBlock = blockNumber, !.accTokenPerShare = 0]
    ELSE [pool EXCEPT
            !.accTokenPerShare = pool.accTokenPerShare
                                  + (TokenReward(pool) * ACC_PRECISION) \div pool.totalStaked,
            !.lastRewardBlock = blockNumber]

\* faulty variant: an empty pool is left as it is, lastRewardBlock included
UpdatedPoolIdleNotAdvanced(pool) ==
    IF blockNumber <= pool.lastRewardBlock THEN pool
    ELSE IF pool.totalStaked = 0 THEN pool
    ELSE [pool EXCEPT
            !.accTokenPerShare = pool.accTokenPerShare
                                  + (TokenReward(pool) * ACC_PRECISION) \div pool.totalStaked,
            !.lastRewardBlock = blockNumber]

\* the pool as updatePool leaves it (defined when UpdatePoolReverts is false)
UpdatedPool(pool) == UpdatedPoolAt(blockNumber, pool)

MassUpdateReverts == \E pid \in Pids : UpdatePoolReverts(poolInfo[pid])

MassUpdatedPools == [pid \in Pids |-> UpdatedPool(poolInfo[pid])]

\* pendingReward (view): the accumulator it extrapolates to block.number;
\* -1 stands for a revert of the view (division by zero, invalid pid)
ViewAcc(pid) ==
    IF pid \notin Pids THEN -1
    ELSE LET pool == poolInfo[pid] IN
         IF blockNumber > pool.lastRewardBlock /\ pool.totalStaked # 0
         THEN IF totalAllocPoint = 0 THEN -1
              ELSE pool.accTokenPerShare
                   + (((getMultiplier(pool.lastRewardBlock, blockNumber) * rewardPerBlock
                        * pool.allocPoint) \div totalAllocPoint) * ACC_PRECISION)
                     \div pool.totalStaked
         ELSE pool.accTokenPerShare

\* faulty variant: the view leaves out the carried pendingRewards
pendingRewardWithoutCarry(pid, u) ==
    IF ViewAcc(pid) = -1 THEN -1
    ELSE LET user == userInfo[pid][u]
             gross == (user.amount * ViewAcc(pid)) \div ACC_PRECISION
         IN IF gross < user.rewardDebt THEN -1
            ELSE gross - user.rewardDebt

pendingReward(pid, u) ==
    IF ViewAcc(pid) = -1 THEN -1
    ELSE LET user == userInfo[pid][u]
             gross == (user.amount * ViewAcc(pid)) \div ACC_PRECISION
         IN IF gross < user.rewardDebt THEN -1
            ELSE gross - user.rewardDebt + user.pendingRewards

\* ----------------------------------------------------------------- Init
Init ==
    /\ blockNumber = 0
    /\ blockTimestamp = 1
    /\ startBlock = StartBlock
    /\ bonusEndBlock = startBlock + BonusBlocks
    /\ rewardPerBlock = 1
    /\ totalAllocPoint = 0
    /\ paused = FALSE
    /\ poolInfo = <<>>
    /\ userInfo = [pid \in 1..MaxPools |-> [u \in Users |-> ZeroUser]]
    /\ balances = [t \in Tokens |->
                    [h \in Holders |-> IF h = Farm
                                       THEN (IF t = RewardToken THEN InitReserve ELSE 0)
                                       ELSE InitBal]]
    /\ emitted = <<>>

\* vm.roll: the environment moves to the next block
Roll ==
    /\ blockNumber < MaxBlock
    /\ blockNumber' = blockNumber + 1
    /\ blockTimestamp' = blockTimestamp + 1
    /\ emitted' = <<>>
    /\ UNCHANGED cvars


\* ------------------------------------------------------- token interface
\* ERC-20 transfer of amt from one holder to another (OpenZeppelin ERC20:
\* reverts when the sender's balance is short; callers test that first)
Moved(bal, tok, from, to, amt) ==
    [bal EXCEPT ![tok] = [h \in DOMAIN bal[tok] |->
        IF from = to THEN bal[tok][h]
        ELSE IF h = from THEN bal[tok][h] - amt
        ELSE IF h = to THEN bal[tok][h] + amt
        ELSE bal[tok][h]]]

\* safeRewardTransfer: the amount it actually sends
RewardSent(bal, amount) ==
    IF amount > bal[RewardToken][Farm] THEN bal[RewardToken][Farm] ELSE amount

\* ------------------------------------------------------- PositionLedger
\* (user.amount * pool.accTokenPerShare) / 1e12
Gross(amount, pool) == (amount * pool.accTokenPerShare) \div ACC_PRECISION

\* faulty variant: the reward accrued up to the top-up is not carried
DepositedUserDropsDelta(user, pool, amt) ==
    [amount |-> user.amount + amt,
     rewardDebt |-> Gross(user.amount + amt, pool),
     pendingRewards |-> user.pendingRewards,
     lastStakeTime |-> blockTimestamp]

\* faulty variant: rewardDebt is derived from the amount before the deposit
DepositedUserStaleDebt(user, pool, amt) ==
    [amount |-> user.amount + amt,
     rewardDebt |-> Gross(user.amount, pool),
     pendingRewards |-> IF user.amount > 0
                        THEN user.pendingRewards + (Gross(user.amount, pool) - user.rewardDebt)
                        ELSE user.pendingRewards,
     lastStakeTime |-> blockTimestamp]

\* deposit, lines 155-158 and 161-164: the position after a deposit into the
\* settled pool
DepositedUser(user, pool, amt) ==
    [amount |-> user.amount + amt,
     rewardDebt |-> Gross(user.amount + amt, pool),
     pendingRewards |-> IF user.amount > 0
                        THEN user.pendingRewards + (Gross(user.amount, pool) - user.rewardDebt)
                        ELSE user.pendingRewards,
     lastStakeTime |-> blockTimestamp]

\* deposit, lines 155-160: the position in storage when safeTransferFrom is
\* called; amount, lastStakeTime and rewardDebt are written after the call
DepositUserAtPull(user, pool, amt) ==
    [user EXCEPT !.pendingRewards =
        IF user.amount > 0
        THEN user.pendingRewards + (Gross(user.amount, pool) - user.rewardDebt)
        ELSE user.pendingRewards]

\* deposit, lines 153-160: the settled pool in storage when safeTransferFrom
\* is called; totalStaked is written after the call
DepositPoolAtPull(pool, amt) == pool

DepositedPool(pool, amt) == [pool EXCEPT !.totalStaked = pool.totalStaked + amt]

\* faulty variant: the pull of the stake token cannot fail
DepositReasonPullNeverFails(u, pid, amt) ==
    IF paused THEN "Pausable: paused"
    ELSE IF pid \notin Pids THEN "invalid pid"
    ELSE LET pool == poolInfo[pid]
             user == userInfo[pid][u]
         IN IF amt < pool.minStakeAmount THEN "Amount below minimum"
            ELSE IF user.amount + amt > pool.maxStakeAmount THEN "Amount exceeds maximum"
            ELSE IF UpdatePoolReverts(pool) THEN "division by zero"
            ELSE IF user.amount > 0 /\ Gross(user.amount, UpdatedPool(pool)) < user.rewardDebt
                 THEN "pending underflow"
            ELSE "ok"

\* faulty variant: the minimum-stake test is missing
DepositReasonNoMinimum(u, pid, amt) ==
    IF paused THEN "Pausable: paused"
    ELSE IF pid \notin Pids THEN "invalid pid"
    ELSE LET pool == poolInfo[pid]
             user == userInfo[pid][u]
         IN IF user.amount + amt > pool.maxStakeAmount THEN "Amount exceeds maximum"
            ELSE IF UpdatePoolReverts(pool) THEN "division by zero"
            ELSE IF user.amount > 0 /\ Gross(user.amount, UpdatedPool(pool)) < user.rewardDebt
                 THEN "pending underflow"
            ELSE IF balances[pool.lpToken][u] < amt
                 THEN "ERC20: transfer amount exceeds balance"
            ELSE "ok"

\* faulty variant: the maximum is tested against the deposited amount alone
DepositReasonMaximumPerDeposit(u, pid, amt) ==
    IF paused THEN "Pausable: paused"
    ELSE IF pid \notin Pids THEN "invalid pid"
    ELSE LET pool == poolInfo[pid]
             user == userInfo[pid][u]
         IN IF amt < pool.minStakeAmount THEN "Amount below minimum"
            ELSE IF amt > pool.maxStakeAmount THEN "Amount exceeds maximum"
            ELSE IF UpdatePoolReverts(pool) THEN "division by zero"
            ELSE IF user.amount > 0 /\ Gross(user.amount, UpdatedPool(pool)) < user.rewardDebt
                 THEN "pending underflow"
            ELSE IF balances[pool.lpToken][u] < amt
                 THEN "ERC20: transfer amount exceeds balance"
            ELSE "ok"

DepositReason(u, pid, amt) ==
    IF paused THEN "Pausable: paused"
    ELSE IF pid \notin Pids THEN "invalid pid"
    ELSE LET pool == poolInfo[pid]
             user == userInfo[pid][u]
         IN IF amt < pool.minStakeAmount THEN "Amount below minimum"
            ELSE IF user.amount + amt > pool.maxStakeAmount THEN "Amount exceeds maximum"
            ELSE IF UpdatePoolReverts(pool) THEN "division by zero"
            ELSE IF user.amount > 0 /\ Gross(user.amount, UpdatedPool(pool)) < user.rewardDebt
                 THEN "pending underflow"
            ELSE IF balances[pool.lpToken][u] < amt
                 THEN "ERC20: transfer amount exceeds balance"
            ELSE "ok"

\* faulty variant: deposit does not call updatePool
DepositUnsettled(u, pid, amt) ==
    /\ DepositReason(u, pid, amt) = "ok"
    /\ LET pool == poolInfo[pid]
           user == userInfo[pid][u]
       IN /\ userInfo' = [userInfo EXCEPT ![pid][u] = DepositedUser(user, pool, amt)]
          /\ poolInfo' = [poolInfo EXCEPT ![pid] = DepositedPool(pool, amt)]
          /\ balances' = Moved(balances, pool.lpToken, u, Farm, amt)
    /\ emitted' = <<Event("Deposit", u, pid, amt)>>
    /\ UNCHANGED <<blockNumber, blockTimestamp, startBlock, bonusEndBlock,
                   rewardPerBlock, totalAllocPoint, paused>>

Deposit(u, pid, amt) ==
    /\ DepositReason(u, pid, amt) = "ok"
    /\ LET pool == UpdatedPool(poolInfo[pid])
           user == userInfo[pid][u]
       IN /\ userInfo' = [userInfo EXCEPT ![pid][u] = DepositedUser(user, pool, amt)]
          /\ poolInfo' = [poolInfo EXCEPT ![pid] = DepositedPool(pool, amt)]
          /\ balances' = Moved(balances, pool.lpToken, u, Farm, amt)
    /\ emitted' = <<Event("Deposit", u, pid, amt)>>
    /\ UNCHANGED <<blockNumber, blockTimestamp, startBlock, bonusEndBlock,
                   rewardPerBlock, totalAllocPoint, paused>>

\* withdraw, line 176 (also harvest, line 198)
PendingOf(user, pool) == Gross(user.amount, pool) - user.rewardDebt + user.pendingRewards

\* faulty variant: rewardDebt is derived from the amount before the withdrawal
WithdrawnUserStaleDebt(user, pool, amt) ==
    [user EXCEPT !.amount = user.amount - amt,
                 !.rewardDebt = Gross(user.amount, pool),
                 !.pendingRewards = IF PendingOf(user, pool) > 0 THEN 0
                                    ELSE user.pendingRewards]

\* faulty variant: the carried pendingRewards are not cleared when they are paid
WithdrawnUserKeepsCarry(user, pool, amt) ==
    [user EXCEPT !.amount = user.amount - amt,
                 !.rewardDebt = Gross(user.amount - amt, pool)]

\* withdraw, lines 178-183: the position after withdrawing amt
WithdrawnUser(user, pool, amt) ==
    [user EXCEPT !.amount = user.amount - amt,
                 !.rewardDebt = Gross(user.amount - amt, pool),
                 !.pendingRewards = IF PendingOf(user, pool) > 0 THEN 0
                                    ELSE user.pendingRewards]

\* faulty variant: the pool total is not decreased
WithdrawnPoolKeepsTotal(pool, amt) == pool

\* withdraw, lines 178-188: position and pool in storage when the reward and
\* the stake are sent; every write precedes the transfers
WithdrawUserAtTransfer(user, pool, amt) == WithdrawnUser(user, pool, amt)

WithdrawPoolAtTransfer(pool, amt) == [pool EXCEPT !.totalStaked = pool.totalStaked - amt]

WithdrawnPool(pool, amt) == [pool EXCEPT !.totalStaked = pool.totalStaked - amt]

\* faulty variant: RewardPaid is emitted whatever the computed pending is
RewardPaidEventsAlways(u, pid, pending) == <<Event("RewardPaid", u, pid, pending)>>

\* withdraw line 185, harvest line 204: RewardPaid is emitted with the computed
\* pending when it is positive
RewardPaidEvents(u, pid, pending) ==
    IF pending > 0 THEN <<Event("RewardPaid", u, pid, pending)>> ELSE <<>>

\* balances after the reward leg of withdraw / harvest
RewardPaidBalances(u, pending) ==
    IF pending > 0
    THEN Moved(balances, RewardToken, Farm, u, RewardSent(balances, pending))
    ELSE balances

\* faulty variant: the test of the position's amount is missing
WithdrawReasonNoBalanceTest(u, pid, amt) ==
    IF pid \notin Pids THEN "invalid pid"
    ELSE LET pool == poolInfo[pid]
             user == userInfo[pid][u]
         IN IF UpdatePoolReverts(pool) THEN "division by zero"
            ELSE IF Gross(user.amount, UpdatedPool(pool)) < user.rewardDebt
                 THEN "pending underflow"
            ELSE IF pool.totalStaked < amt THEN "totalStaked underflow"
            ELSE IF RewardPaidBalances(u, PendingOf(user, UpdatedPool(pool)))[pool.lpToken][Farm] < amt
                 THEN "ERC20: transfer amount exceeds balance"
            ELSE "ok"

\* faulty variant: withdraw carries the whenNotPaused modifier of deposit
WithdrawReasonWhenNotPaused(u, pid, amt) ==
    IF paused THEN "Pausable: paused"
    ELSE IF pid \notin Pids THEN "invalid pid"
    ELSE LET pool == poolInfo[pid]
             user == userInfo[pid][u]
         IN IF user.amount < amt THEN "Insufficient balance"
            ELSE IF UpdatePoolReverts(pool) THEN "division by zero"
            ELSE IF Gross(user.amount, UpdatedPool(pool)) < user.rewardDebt
                 THEN "pending underflow"
            ELSE IF pool.totalStaked < amt THEN "totalStaked underflow"
            ELSE IF RewardPaidBalances(u, PendingOf(user, UpdatedPool(pool)))[pool.lpToken][Farm] < amt
                 THEN "ERC20: transfer amount exceeds balance"
            ELSE "ok"

WithdrawReason(u, pid, amt) ==
    IF pid \notin Pids THEN "invalid pid"
    ELSE LET pool == poolInfo[pid]
             user == userInfo[pid][u]
         IN IF user.amount < amt THEN "Insufficient balance"
            ELSE IF UpdatePoolReverts(pool) THEN "division by zero"
            ELSE IF Gross(user.amount, UpdatedPool(pool)) < user.rewardDebt
                 THEN "pending underflow"
            ELSE IF pool.totalStaked < amt THEN "totalStaked underflow"
            ELSE IF RewardPaidBalances(u, PendingOf(user, UpdatedPool(pool)))[pool.lpToken][Farm] < amt
                 THEN "ERC20: transfer amount exceeds balance"
            ELSE "ok"

Withdraw(u, pid, amt) ==
    /\ WithdrawReason(u, pid, amt) = "ok"
    /\ LET pool == UpdatedPool(poolInfo[pid])
           user == userInfo[pid][u]
       IN /\ userInfo' = [userInfo EXCEPT ![pid][u] = WithdrawnUser(user, pool, amt)]
          /\ poolInfo' = [poolInfo EXCEPT ![pid] = WithdrawnPool(pool, amt)]
          /\ balances' = Moved(RewardPaidBalances(u, PendingOf(user, pool)),
                               pool.lpToken, Farm, u, amt)
    /\ emitted' = RewardPaidEvents(u, pid, PendingOf(userInfo[pid][u], UpdatedPool(poolInfo[pid])))
                   \o <<Event("Withdraw", u, pid, amt)>>
    /\ UNCHANGED <<blockNumber, blockTimestamp, startBlock, bonusEndBlock,
                   rewardPerBlock, totalAllocPoint, paused>>

\* faulty variant: harvest clears pendingRewards and leaves rewardDebt as it was
HarvestedUserKeepsDebt(user, pool) ==
    IF PendingOf(user, pool) > 0
    THEN [user EXCEPT !.pendingRewards = 0]
    ELSE user

\* harvest, lines 200-203: the position after a harvest
HarvestedUser(user, pool) ==
    IF PendingOf(user, pool) > 0
    THEN [user EXCEPT !.pendingRewards = 0, !.rewardDebt = Gross(user.amount, pool)]
    ELSE user

\* harvest, lines 200-203: the position in storage when the reward is sent
HarvestUserAtTransfer(user, pool) == HarvestedUser(user, pool)

HarvestReason(u, pid) ==
    IF pid \notin Pids THEN "invalid pid"
    ELSE LET pool == poolInfo[pid]
             user == userInfo[pid][u]
         IN IF UpdatePoolReverts(pool) THEN "division by zero"
            ELSE IF Gross(user.amount, UpdatedPool(pool)) < user.rewardDebt
                 THEN "pending underflow"
            ELSE "ok"

Harvest(u, pid) ==
    /\ HarvestReason(u, pid) = "ok"
    /\ LET pool == UpdatedPool(poolInfo[pid])
           user == userInfo[pid][u]
       IN /\ userInfo' = [userInfo EXCEPT ![pid][u] = HarvestedUser(user, pool)]
          /\ poolInfo' = [poolInfo EXCEPT ![pid] = pool]
          /\ balances' = RewardPaidBalances(u, PendingOf(user, pool))
    /\ emitted' = RewardPaidEvents(u, pid, PendingOf(userInfo[pid][u], UpdatedPool(poolInfo[pid])))
    /\ UNCHANGED <<blockNumber, blockTimestamp, startBlock, bonusEndBlock,
                   rewardPerBlock, totalAllocPoint, paused>>

\* emergencyWithdraw, lines 213-215
EmergencyUser(user) == [user EXCEPT !.amount = 0, !.rewardDebt = 0, !.pendingRewards = 0]

\* faulty variant: the pool total is not decreased
EmergencyPoolKeepsTotal(pool, amount) == pool

\* emergencyWithdraw, line 216
EmergencyPool(pool, amount) == [pool EXCEPT !.totalStaked = pool.totalStaked - amount]

\* emergencyWithdraw, lines 213-218: position and pool in storage when the
\* stake is sent
EmergencyUserAtTransfer(user) == EmergencyUser(user)

EmergencyPoolAtTransfer(pool, amount) == EmergencyPool(pool, amount)

EmergencyReason(u, pid) ==
    IF pid \notin Pids THEN "invalid pid"
    ELSE LET pool == poolInfo[pid]
             user == userInfo[pid][u]
         IN IF pool.totalStaked < user.amount THEN "totalStaked underflow"
            ELSE IF balances[pool.lpToken][Farm] < user.amount
                 THEN "ERC20: transfer amount exceeds balance"
            ELSE "ok"

EmergencyWithdraw(u, pid) ==
    /\ EmergencyReason(u, pid) = "ok"
    /\ LET pool == poolInfo[pid]
           user == userInfo[pid][u]
       IN /\ userInfo' = [userInfo EXCEPT ![pid][u] = EmergencyUser(user)]
          /\ poolInfo' = [poolInfo EXCEPT ![pid] = EmergencyPool(pool, user.amount)]
          /\ balances' = Moved(balances, pool.lpToken, Farm, u, user.amount)
    /\ emitted' = <<Event("EmergencyWithdraw", u, pid, userInfo[pid][u].amount)>>
    /\ UNCHANGED <<blockNumber, blockTimestamp, startBlock, bonusEndBlock,
                   rewardPerBlock, totalAllocPoint, paused>>

\* ------------------------------------------ public settlement functions
UpdatePoolReason(pid) ==
    IF pid \notin Pids THEN "invalid pid"
    ELSE IF UpdatePoolReverts(poolInfo[pid]) THEN "division by zero"
    ELSE "ok"

UpdatePool(caller, pid) ==
    /\ UpdatePoolReason(pid) = "ok"
    /\ poolInfo' = [poolInfo EXCEPT ![pid] = UpdatedPool(poolInfo[pid])]
    /\ emitted' = <<>>
    /\ UNCHANGED <<blockNumber, blockTimestamp, startBlock, bonusEndBlock,
                   rewardPerBlock, totalAllocPoint, paused, userInfo, balances>>

MassUpdateReason == IF MassUpdateReverts THEN "division by zero" ELSE "ok"

MassUpdatePools(caller) ==
    /\ MassUpdateReason = "ok"
    /\ poolInfo' = MassUpdatedPools
    /\ emitted' = <<>>
    /\ UNCHANGED <<blockNumber, blockTimestamp, startBlock, bonusEndBlock,
                   rewardPerBlock, totalAllocPoint, paused, userInfo, balances>>

\* ------------------------------------------- PoolRegistry / AccessGate
\* faulty variant: the onlyOwner modifier is missing
OnlyOwnerReasonAnyone(caller) == "ok"

\* Ownable.onlyOwner
OnlyOwnerReason(caller) ==
    IF caller # Owner THEN "Ownable: caller is not the owner" ELSE "ok"

\* the registry as the optional massUpdatePools of addPool / setPool leaves it
MaybeUpdatedPools(withUpdate) == IF withUpdate THEN MassUpdatedPools ELSE poolInfo

\* faulty variant: a pool added before startBlock accrues from its creation
NewPoolFromCurrentBlock(allocPoint, lpToken, minStake, maxStake) ==
    [lpToken |-> lpToken,
     allocPoint |-> allocPoint,
     lastRewardBlock |-> blockNumber,
     accTokenPerShare |-> 0,
     totalStaked |-> 0,
     minStakeAmount |-> minStake,
     maxStakeAmount |-> maxStake]

NewPool(allocPoint, lpToken, minStake, maxStake) ==
    [lpToken |-> lpToken,
     allocPoint |-> allocPoint,
     lastRewardBlock |-> IF blockNumber > startBlock THEN blockNumber ELSE startBlock,
     accTokenPerShare |-> 0,
     totalStaked |-> 0,
     minStakeAmount |-> minStake,
     maxStakeAmount |-> maxStake]

AddPoolReason(caller, withUpdate) ==
    IF OnlyOwnerReason(caller) # "ok" THEN OnlyOwnerReason(caller)
    ELSE IF withUpdate /\ MassUpdateReverts THEN "division by zero"
    ELSE "ok"

\* faulty variant: the weight of the new pool is not added to totalAllocPoint
AddPoolKeepsTotalWeight(caller, allocPoint, lpToken, minStake, maxStake, withUpdate) ==
    /\ AddPoolReason(caller, withUpdate) = "ok"
    /\ totalAllocPoint' = totalAllocPoint
    /\ poolInfo' = Append(MaybeUpdatedPools(withUpdate),
                          NewPool(allocPoint, lpToken, minStake, maxStake))
    /\ emitted' = <<>>
    /\ UNCHANGED <<blockNumber, blockTimestamp, startBlock, bonusEndBlock,
                   rewardPerBlock, paused, userInfo, balances>>

\* faulty variant: the new pool takes the slot of the last pool when the
\* registry is not empty
AddPoolOverLastPool(caller, allocPoint, lpToken, minStake, maxStake, withUpdate) ==
    /\ AddPoolReason(caller, withUpdate) = "ok"
    /\ totalAllocPoint' = totalAllocPoint + allocPoint
    /\ poolInfo' = IF poolInfo = <<>>
                   THEN <<NewPool(allocPoint, lpToken, minStake, maxStake)>>
                   ELSE [MaybeUpdatedPools(withUpdate) EXCEPT
                           ![Len(poolInfo)] = NewPool(allocPoint, lpToken, minStake, maxStake)]
    /\ emitted' = <<>>
    /\ UNCHANGED <<blockNumber, blockTimestamp, startBlock, bonusEndBlock,
                   rewardPerBlock, paused, userInfo, balances>>

AddPool(caller, allocPoint, lpToken, minStake, maxStake, withUpdate) ==
    /\ AddPoolReason(caller, withUpdate) = "ok"
    /\ totalAllocPoint' = totalAllocPoint + allocPoint
    /\ poolInfo' = Append(MaybeUpdatedPools(withUpdate),
                          NewPool(allocPoint, lpToken, minStake, maxStake))
    /\ emitted' = <<>>
    /\ UNCHANGED <<blockNumber, blockTimestamp, startBlock, bonusEndBlock,
                   rewardPerBlock, paused, userInfo, balances>>

SetPoolReason(caller, pid, withUpdate) ==
    IF OnlyOwnerReason(caller) # "ok" THEN OnlyOwnerReason(caller)
    ELSE IF withUpdate /\ MassUpdateReverts THEN "division by zero"
    ELSE IF pid \notin Pids THEN "invalid pid"
    ELSE IF totalAllocPoint < poolInfo[pid].allocPoint THEN "totalAllocPoint underflow"
    ELSE "ok"

\* faulty variant: the previous weight of the pool stays in totalAllocPoint
SetPoolKeepsOldWeight(caller, pid, allocPoint, withUpdate) ==
    /\ SetPoolReason(caller, pid, withUpdate) = "ok"
    /\ totalAllocPoint' = totalAllocPoint + allocPoint
    /\ poolInfo' = [MaybeUpdatedPools(withUpdate) EXCEPT ![pid].allocPoint = allocPoint]
    /\ emitted' = <<>>
    /\ UNCHANGED <<blockNumber, blockTimestamp, startBlock, bonusEndBlock,
                   rewardPerBlock, paused, userInfo, balances>>

SetPool(caller, pid, allocPoint, withUpdate) ==
    /\ SetPoolReason(caller, pid, withUpdate) = "ok"
    /\ totalAllocPoint' = totalAllocPoint - poolInfo[pid].allocPoint + allocPoint
    /\ poolInfo' = [MaybeUpdatedPools(withUpdate) EXCEPT ![pid].allocPoint = allocPoint]
    /\ emitted' = <<>>
    /\ UNCHANGED <<blockNumber, blockTimestamp, startBlock, bonusEndBlock,
                   rewardPerBlock, paused, userInfo, balances>>

\* faulty variant: updateRewardPerBlock stores the rate without settling
RateUpdatedPoolsUnsettled == poolInfo

\* the registry as updateRewardPerBlock's massUpdatePools leaves it
RateUpdatedPools == MassUpdatedPools

UpdateRewardPerBlockReason(caller) ==
    IF OnlyOwnerReason(caller) # "ok" THEN OnlyOwnerReason(caller)
    ELSE IF MassUpdateReverts THEN "division by zero"
    ELSE "ok"

UpdateRewardPerBlock(caller, rate) ==
    /\ UpdateRewardPerBlockReason(caller) = "ok"
    /\ poolInfo' = RateUpdatedPools
    /\ rewardPerBlock' = rate
    /\ emitted' = <<>>
    /\ UNCHANGED <<blockNumber, blockTimestamp, startBlock, bonusEndBlock,
                   totalAllocPoint, paused, userInfo, balances>>

\* Pausable._pause is whenNotPaused, Pausable._unpause is whenPaused
PauseReason(caller) ==
    IF OnlyOwnerReason(caller) # "ok" THEN OnlyOwnerReason(caller)
    ELSE IF paused THEN "Pausable: paused"
    ELSE "ok"

Pause(caller) ==
    /\ PauseReason(caller) = "ok"
    /\ paused' = TRUE
    /\ emitted' = <<>>
    /\ UNCHANGED <<blockNumber, blockTimestamp, startBlock, bonusEndBlock,
                   rewardPerBlock, totalAllocPoint, poolInfo, userInfo, balances>>

UnpauseReason(caller) ==
    IF OnlyOwnerReason(caller) # "ok" THEN OnlyOwnerReason(caller)
    ELSE IF ~paused THEN "Pausable: not paused"
    ELSE "ok"

Unpause(caller) ==
    /\ UnpauseReason(caller) = "ok"
    /\ paused' = FALSE
    /\ emitted' = <<>>
    /\ UNCHANGED <<blockNumber, blockTimestamp, startBlock, bonusEndBlock,
                   rewardPerBlock, totalAllocPoint, poolInfo, userInfo, balances>>

\* ----------------------------------------------------- ReentrancyGuard
\* the functions that carry the nonReentrant modifier
NonReentrantFunctions == {"deposit", "withdraw", "harvest", "emergencyWithdraw"}

\* the outcome of a call of function fn made while a nonReentrant function of
\* the contract is executing (ReentrancyGuard._status is _ENTERED), given the
\* outcome the call has otherwise
ReentrantReason(fn, reason) ==
    IF fn \in NonReentrantFunctions THEN "ReentrancyGuard: reentrant call" ELSE reason

\* ------------------------------------------------------- specification
\* The calls of the contract with msg.sender and the arguments drawn from
\* small sets: stakers U, at most cap pools, stake tokens T, stake limits L,
\* reward rates R.
CallsOver(U, cap, T, L, R) ==
    \/ Roll
    \/ \E u \in U, pid \in 1..cap, amt \in 0..MaxAmt : Deposit(u, pid, amt)
    \/ \E u \in U, pid \in 1..cap, amt \in 0..MaxAmt : Withdraw(u, pid, amt)
    \/ \E u \in U, pid \in 1..cap : Harvest(u, pid)
    \/ \E u \in U, pid \in 1..cap : EmergencyWithdraw(u, pid)
    \/ \E u \in U, pid \in 1..cap : UpdatePool(u, pid)
    \/ \E u \in U : MassUpdatePools(u)
    \/ \E c \in Callers, a \in 0..MaxAlloc, t \in T, lim \in L, w \in BOOLEAN :
          Len(poolInfo) < cap /\ AddPool(c, a, t, lim[1], lim[2], w)
    \/ \E c \in Callers, pid \in 1..cap, a \in 0..MaxAlloc, w \in BOOLEAN :
          SetPool(c, pid, a, w)
    \/ \E c \in Callers, r \in R : UpdateRewardPerBlock(c, r)
    \/ \E c \in Callers : Pause(c)
    \/ \E c \in Callers : Unpause(c)

\* one staker, one pool, every pool configuration: the stake token may be
\* the reward token, and the owner changes the reward rate
Next == CallsOver({"u1"}, 1, Tokens, StakeLimits, 1..MaxRate)

Spec == Init /\ [][Next]_vars

\* two stakers in one pool of the plain stake token
NextUsers == CallsOver(Users, 1, {"LP"}, {<<1, 2>>}, {1})

SpecUsers == Init /\ [][NextUsers]_vars

\* one staker, several pools of the plain stake token
NextPools == CallsOver({"u1"}, MaxPools, {"LP"}, {<<1, 1>>}, {1})

SpecPools == Init /\ [][NextPools]_vars

\* the scenario of testMultipleUsers: the owner adds one pool holding all the
\* weight, each user makes one deposit at a block of their choice, anyone
\* settles the pool and the users harvest; the stakes are never reduced
NextShares ==
    \/ Roll
    \/ \E w \in BOOLEAN : Len(poolInfo) < 1 /\ AddPool(Owner, 1, "LP", 1, 2, w)
    \/ \E u \in Users, amt \in 1..MaxAmt :
          userInfo[1][u].amount = 0 /\ Deposit(u, 1, amt)
    \/ \E u \in Users : Harvest(u, 1)
    \/ \E u \in Users : UpdatePool(u, 1)

SpecShares == Init /\ [][NextShares]_vars

\* the scenario of testWithdraw and testHarvest with several users: the
\* owner adds one pool holding all the weight, each user makes one deposit,
\* the users harvest and withdraw while some stake stays in the pool, and
\* anyone settles it
NextCredit ==
    \/ Roll
    \/ \E w \in BOOLEAN : Len(poolInfo) < 1 /\ AddPool(Owner, 1, "LP", 1, 2, w)
    \/ \E u \in Users, amt \in 1..MaxAmt :
          userInfo[1][u].lastStakeTime = 0 /\ Deposit(u, 1, amt)
    \/ \E u \in Users, amt \in 0..MaxAmt :
          /\ Len(poolInfo) = 1
          /\ poolInfo[1].totalStaked > amt
          /\ Withdraw(u, 1, amt)
    \/ \E u \in Users : Harvest(u, 1)
    \/ \E u \in Users : UpdatePool(u, 1)

SpecCredit == Init /\ [][NextCredit]_vars

\* one staker and one pool of the plain stake token whose maximum stake
\* exceeds what the staker owns
NextFunds == CallsOver({"u1"}, 1, {"LP"}, {<<1, InitBal + 1>>}, {1})

SpecFunds == Init /\ [][NextFunds]_vars

\* the registry under the owner's hand: pools of every stake token, weight and
\* stake limits are added and re-weighted, with or without settlement, while
\* one staker deposits and anyone settles the pools
NextRegistry ==
    \/ Roll
    \/ \E a \in 0..MaxAlloc, t \in Tokens, lim \in StakeLimits, w \in BOOLEAN :
          Len(poolInfo) < MaxPools /\ AddPool(Owner, a, t, lim[1], lim[2], w)
    \/ \E pid \in 1..MaxPools, a \in 0..MaxAlloc, w \in BOOLEAN : SetPool(Owner, pid, a, w)
    \/ \E pid \in 1..MaxPools, amt \in 1..MaxAmt : Deposit("u1", pid, amt)
    \/ MassUpdatePools("u1")

SpecRegistry == Init /\ [][NextRegistry]_vars

\* ------------------------------------------------------------ claims
RECURSIVE SumOver(_, _)
SumOver(f, S) ==
    IF S = {} THEN 0
    ELSE LET x == CHOOSE y \in S : TRUE IN f[x] + SumOver(f, S \ {x})

\* the sum of amount over every position of pool pid
StakedSum(pid) == SumOver([u \in Users |-> userInfo[pid][u].amount], Users)

HasEvent(name) == \E i \in 1..Len(emitted) : emitted[i].name = name

\* C1: in every reachable state each pool's totalStaked equals the sum of
\* amount over all users' positions in that pool.
C1_TotalStakedIsSum ==
    \A pid \in Pids : poolInfo[pid].totalStaked = StakedSum(pid)

\* both users hold different stakes in one pool, right after a withdrawal
C1_Witness ==
    /\ HasEvent("Withdraw")
    /\ \E pid \in Pids :
         /\ userInfo[pid]["u1"].amount > 0
         /\ userInfo[pid]["u2"].amount > userInfo[pid]["u1"].amount

\* C2: for every reachable position, at the stored accumulator and at the
\* accumulator extrapolated to the current block, amount * acc / 1e12 is at
\* least rewardDebt, so the claimable reward is non-negative and no deposit,
\* withdraw or harvest aborts on the subtraction.
C2_PendingNonNegative ==
    \A pid \in Pids, u \in Users :
        LET user == userInfo[pid][u] IN
        /\ Gross(user.amount, poolInfo[pid]) >= user.rewardDebt
        /\ PendingOf(user, poolInfo[pid]) >= 0
        /\ ViewAcc(pid) # -1 =>
             /\ (user.amount * ViewAcc(pid)) \div ACC_PRECISION >= user.rewardDebt
             /\ pendingReward(pid, u) >= 0
        /\ HarvestReason(u, pid) # "pending underflow"
        /\ \A amt \in 0..MaxAmt :
             /\ DepositReason(u, pid, amt) # "pending underflow"
             /\ WithdrawReason(u, pid, amt) # "pending underflow"

\* a position settled at a positive accumulator that has accrued since
C2_Witness ==
    \E pid \in Pids, u \in Users :
        /\ userInfo[pid][u].rewardDebt > 0
        /\ userInfo[pid][u].pendingRewards > 0
        /\ pendingReward(pid, u) > userInfo[pid][u].pendingRewards

\* C3: the pause flag gates deposit only: across every step that sets or
\* clears the flag, the outcome of every withdraw, harvest and
\* emergencyWithdraw call is what it was before the step, and while paused
\* every deposit is rejected for the pause.
C3_PauseGatesDepositOnly ==
    [][ /\ paused' # paused =>
             \A u \in Users, pid \in 1..MaxPools :
                 /\ HarvestReason(u, pid)' = HarvestReason(u, pid)
                 /\ EmergencyReason(u, pid)' = EmergencyReason(u, pid)
                 /\ pendingReward(pid, u)' = pendingReward(pid, u)
                 /\ \A amt \in 0..MaxAmt :
                        WithdrawReason(u, pid, amt)' = WithdrawReason(u, pid, amt)
        /\ paused' =>
             \A u \in Users, pid \in 1..MaxPools, amt \in 0..MaxAmt :
                 DepositReason(u, pid, amt)' = "Pausable: paused"
      ]_vars

\* a withdrawal that paid a reward has just completed while the system is paused
C3_Witness ==
    /\ paused
    /\ HasEvent("Withdraw")
    /\ HasEvent("RewardPaid")
    /\ emitted[Len(emitted)].amount > 0

\* C4: a pool whose weight the admin has set to 0 after it accrued stays
\* exitable: at every time, every user with a non-zero position in it can
\* withdraw any part of it, harvest and emergencyWithdraw, whatever the
\* weights of the other pools (their sum may be 0).
C4_DeprecatedPoolStaysExitable ==
    \A pid \in Pids, u \in Users :
        (/\ poolInfo[pid].allocPoint = 0
         /\ poolInfo[pid].accTokenPerShare > 0
         /\ userInfo[pid][u].amount > 0)
        => /\ HarvestReason(u, pid) = "ok"
           /\ EmergencyReason(u, pid) = "ok"
           /\ \A amt \in 0..userInfo[pid][u].amount : WithdrawReason(u, pid, amt) = "ok"

\* C5: in every reachable state emergencyWithdraw is accepted for every
\* position, and the call gives the caller exactly the staked amount of the
\* stake token, zeroes amount, rewardDebt and pendingRewards, decreases
\* totalStaked by that amount and moves no other token.
C5_EmergencyWithdrawAlwaysReturnsStake ==
    [][ \A u \in Users, pid \in 1..MaxPools :
          /\ pid \in 1..Len(poolInfo') => EmergencyReason(u, pid)' = "ok"
          /\ EmergencyWithdraw(u, pid) =>
               LET amount == userInfo[pid][u].amount
                   tok == poolInfo[pid].lpToken
               IN /\ balances'[tok][u] = balances[tok][u] + amount
                  /\ balances'[tok][Farm] = balances[tok][Farm] - amount
                  /\ \A t \in Tokens \ {tok} : balances'[t] = balances[t]
                  /\ userInfo'[pid][u].amount = 0
                  /\ userInfo'[pid][u].rewardDebt = 0
                  /\ userInfo'[pid][u].pendingRewards = 0
                  /\ poolInfo'[pid].totalStaked = poolInfo[pid].totalStaked - amount
      ]_vars

\* C6: every setPool call, whatever its arguments, leaves the pool settled
\* up to the current block with the accrual of the elapsed blocks computed at
\* the old weight and old totalAllocPoint, so a settle after the call adds
\* nothing for the time before it.
C6_SetPoolAlwaysSettles ==
    [][ \A c \in Callers, pid \in 1..MaxPools, a \in 0..MaxAlloc, w \in BOOLEAN :
          (SetPool(c, pid, a, w) /\ ViewAcc(pid) # -1 /\ ViewAcc(pid)' # -1) =>
              /\ poolInfo'[pid].accTokenPerShare = ViewAcc(pid)
              /\ ViewAcc(pid)' = ViewAcc(pid)
      ]_vars

\* C7: a step that changes totalAllocPoint (addPool, setPool) leaves, for
\* every other existing pool, the accumulator value a settle at the current
\* block produces what it was before the step: the elapsed blocks are
\* accrued with the totalAllocPoint in effect before the change.
C7_OtherPoolsKeepPastAccrual ==
    [][ totalAllocPoint' # totalAllocPoint =>
          \A q \in Pids :
              (/\ poolInfo'[q].allocPoint = poolInfo[q].allocPoint
               /\ ViewAcc(q) # -1
               /\ ViewAcc(q)' # -1)
              => ViewAcc(q)' = ViewAcc(q)
      ]_vars

\* C8: updateRewardPerBlock settles every pool up to the current block
\* before it stores the new rate: each pool's accumulator becomes the value
\* accrued at the old rate, and a settle right after the call adds nothing
\* at the new rate for the blocks before it.
C8_RateChangeSettlesAllPools ==
    [][ \A c \in Callers, r \in 1..MaxRate :
          UpdateRewardPerBlock(c, r) =>
              \A pid \in Pids :
                  /\ poolInfo'[pid].accTokenPerShare = ViewAcc(pid)
                  /\ ViewAcc(pid)' = ViewAcc(pid)
                  /\ blockNumber > poolInfo[pid].lastRewardBlock
                       => poolInfo'[pid].lastRewardBlock = blockNumber
      ]_vars

\* the rate has been raised at a block where a staked pool had accrual
\* outstanding, and that pool is settled at the current block
C8_Witness ==
    /\ rewardPerBlock = MaxRate
    /\ emitted = <<>>
    /\ \E pid \in Pids :
         /\ poolInfo[pid].totalStaked > 0
         /\ poolInfo[pid].accTokenPerShare > 0
         /\ poolInfo[pid].lastRewardBlock = blockNumber
         /\ blockNumber = MaxBlock

\* C9: no step decreases any pool's accTokenPerShare.
C9_AccNeverDecreases ==
    [][ \A pid \in Pids :
          poolInfo'[pid].accTokenPerShare >= poolInfo[pid].accTokenPerShare ]_vars

\* a pool that accrued, was emptied and has been settled again while empty
C9_Witness ==
    \E pid \in Pids :
        /\ poolInfo[pid].accTokenPerShare > 0
        /\ poolInfo[pid].totalStaked = 0
        /\ poolInfo[pid].lastRewardBlock = MaxBlock

\* C10: the pendingReward view is defined exactly when harvest is accepted,
\* and on every harvest and withdraw step its value in the state before the
\* call is the pending amount the call computes: the amount of the RewardPaid
\* event (none when it is 0) and, when the farm holds at least that much
\* reward token, the reward the caller receives.
C10_ViewMatchesHarvest ==
    [][ \A u \in Users, pid \in 1..MaxPools :
          LET p == pendingReward(pid, u) IN
          /\ pid \in Pids => ((p # -1) <=> (HarvestReason(u, pid) = "ok"))
          /\ Harvest(u, pid) =>
               /\ p >= 0
               /\ emitted' = RewardPaidEvents(u, pid, p)
               /\ p <= balances[RewardToken][Farm] =>
                    balances'[RewardToken][u] = balances[RewardToken][u] + p
          /\ \A amt \in 0..MaxAmt :
               Withdraw(u, pid, amt) =>
                 /\ p >= 0
                 /\ emitted' = RewardPaidEvents(u, pid, p) \o <<Event("Withdraw", u, pid, amt)>>
                 /\ p <= balances[RewardToken][Farm] =>
                      balances'[RewardToken][u] = balances[RewardToken][u] + p
                        + (IF poolInfo[pid].lpToken = RewardToken THEN amt ELSE 0)
      ]_vars

\* a harvest has just paid a reward that carried pendingRewards from an
\* earlier deposit
C10_Witness ==
    /\ Len(emitted) = 1
    /\ emitted[1].name = "RewardPaid"
    /\ emitted[1].amount > 1
    /\ balances[RewardToken]["u1"] > InitBal

\* ---- time-weighted shares (C11), over the behaviours of SpecShares
\* common denominator of the shares amount / totalStaked (totalStaked in 1..4)
ShareScale == 3 * 4

\* the block of u's deposit into pool 1 (block.timestamp runs with block.number)
DepositBlock(u) == userInfo[1][u].lastStakeTime - (blockTimestamp - blockNumber)

\* the stake of pool 1 during the block interval b .. b+1
StakedDuring(b) ==
    SumOver([v \in Users |-> IF userInfo[1][v].amount > 0 /\ DepositBlock(v) <= b
                             THEN userInfo[1][v].amount ELSE 0], Users)

\* the blocks b whose interval b .. b+1 has elapsed with u's stake in the pool
HeldBlocks(u) ==
    {b \in 0..(blockNumber - 1) : b >= DepositBlock(u) /\ b >= startBlock}

\* ShareScale times the sum over those intervals of
\* interval reward * amount / totalStaked, as an exact integer
IdealShare(u) ==
    SumOver([b \in HeldBlocks(u) |->
                getMultiplier(b, b + 1) * rewardPerBlock * userInfo[1][u].amount
                    * (ShareScale \div StakedDuring(b))],
            HeldBlocks(u))

\* what u has harvested so far plus what the view reports as harvestable
RewardSoFar(u) == (balances[RewardToken][u] - InitBal) + pendingReward(1, u)

\* the positions the comparison covers: staked, view defined, and no payout
\* so far was cut by an empty reserve
SharesComparable(u) ==
    /\ Len(poolInfo) = 1
    /\ userInfo[1][u].amount > 0
    /\ pendingReward(1, u) # -1
    /\ balances[RewardToken][Farm] > 0

\* C11 (as claimed): each user's harvested plus harvestable reward differs
\* from the time-weighted share, the sum over the elapsed intervals of
\* interval reward * amount / totalStaked, by less than one reward unit.
C11_ShareWithinOneUnit ==
    \A u \in Users :
        SharesComparable(u) =>
            /\ RewardSoFar(u) * ShareScale - IdealShare(u) < ShareScale
            /\ IdealShare(u) - RewardSoFar(u) * ShareScale < ShareScale

\* C11 (amended): the reward exceeds the time-weighted share by less than one
\* unit and falls short of it by less than one unit plus
\* amount * k / 1e12, k the number of elapsed intervals (each settlement
\* truncates the accumulator by less than 1e-12 reward units per staked unit).
C11_ShareWithinTruncation ==
    \A u \in Users :
        SharesComparable(u) =>
            /\ RewardSoFar(u) * ShareScale - IdealShare(u) < ShareScale
            /\ (IdealShare(u) - RewardSoFar(u) * ShareScale) * ACC_PRECISION
                 < ShareScale * ACC_PRECISION
                   + ShareScale * userInfo[1][u].amount * Cardinality(HeldBlocks(u))

\* two users hold different amounts deposited at different blocks, both have
\* earned, and one of them has just harvested
C11_Witness ==
    /\ SharesComparable("u1")
    /\ SharesComparable("u2")
    /\ userInfo[1]["u1"].amount # userInfo[1]["u2"].amount
    /\ DepositBlock("u1") < DepositBlock("u2")
    /\ IdealShare("u1") > 0
    /\ IdealShare("u2") > 0
    /\ HasEvent("RewardPaid")

\* C12: a deposit of amt by a user without a position, immediately followed
\* by withdraw of amt in the same block, is accepted, leaves amount = 0,
\* brings totalStaked and the user's stake-token balance back to their values
\* before the deposit, and pays no reward (no RewardPaid, no reward token
\* beyond the returned stake).
C12_DepositThenWithdraw ==
    [][ \A u \in Users, pid \in 1..MaxPools, amt \in 1..MaxAmt :
          (/\ emitted = <<Event("Deposit", u, pid, amt)>>
           /\ userInfo[pid][u].amount = amt)
          => /\ WithdrawReason(u, pid, amt) = "ok"
             /\ Withdraw(u, pid, amt) =>
                  LET tok == poolInfo[pid].lpToken IN
                  /\ userInfo'[pid][u].amount = 0
                  /\ poolInfo'[pid].totalStaked = poolInfo[pid].totalStaked - amt
                  /\ balances'[tok][u] = balances[tok][u] + amt
                  /\ balances'[tok][Farm] = balances[tok][Farm] - amt
                  /\ \A t \in Tokens \ {tok} : balances'[t] = balances[t]
                  /\ emitted' = <<Event("Withdraw", u, pid, amt)>>
      ]_vars

\* a user whose whole position dates from this block has just withdrawn it
\* from a pool with a positive accumulator, and no reward was paid
C12_Witness ==
    \E u \in Users, pid \in Pids :
        /\ Len(emitted) = 1
        /\ emitted[1].name = "Withdraw"
        /\ emitted[1].user = u
        /\ emitted[1].amount > 0
        /\ userInfo[pid][u].amount = 0
        /\ userInfo[pid][u].lastStakeTime = blockTimestamp
        /\ poolInfo[pid].accTokenPerShare > 0

\* the blocks of from .. to-1 that satisfy before / not before bonusEnd
UnitsBefore(bonusEnd, from, to) == Cardinality({b \in from..(to - 1) : b < bonusEnd})
UnitsFrom(bonusEnd, from, to) == Cardinality({b \in from..(to - 1) : b >= bonusEnd})

\* C13: for all from <= to, getMultiplier(from, to) is BONUS_MULTIPLIER times
\* the number of blocks of [from, to) before bonusEndBlock plus the number of
\* blocks of [from, to) at or after it; getMultiplier(bonusEndBlock - 5,
\* bonusEndBlock + 5) is 15; every settlement uses that value.
C13_MultiplierCountsUnits ==
    /\ \A e \in 0..MaxUnit, from \in 0..MaxUnit, to \in 0..MaxUnit :
          from <= to =>
              getMultiplierAt(e, from, to)
                  = BONUS_MULTIPLIER * UnitsBefore(e, from, to) + UnitsFrom(e, from, to)
    /\ \A e \in 5..(MaxUnit - 5) : getMultiplierAt(e, e - 5, e + 5) = 15
    /\ \A pid \in Pids :
          poolInfo[pid].lastRewardBlock <= blockNumber =>
              getMultiplier(poolInfo[pid].lastRewardBlock, blockNumber)
                  = BONUS_MULTIPLIER
                      * UnitsBefore(bonusEndBlock, poolInfo[pid].lastRewardBlock, blockNumber)
                    + UnitsFrom(bonusEndBlock, poolInfo[pid].lastRewardBlock, blockNumber)

\* a pool whose unsettled range straddles bonusEndBlock
C13_Witness ==
    \E pid \in Pids :
        /\ poolInfo[pid].lastRewardBlock < bonusEndBlock
        /\ bonusEndBlock < blockNumber
        /\ poolInfo[pid].totalStaked > 0
        /\ getMultiplier(poolInfo[pid].lastRewardBlock, blockNumber) = 3

\* the stake bounds of deposit fail for (u, pid, amt)
OutsideStakeBounds(u, pid, amt) ==
    /\ pid \in Pids
    /\ \/ amt < poolInfo[pid].minStakeAmount
       \/ userInfo[pid][u].amount + amt > poolInfo[pid].maxStakeAmount

\* C14: a deposit below minStakeAmount, or taking the position above
\* maxStakeAmount, is rejected by the stake-bound tests (or by the pause
\* gate before them), before the pool is settled, and no step of the system
\* is such a deposit: pools, positions, globals and balances stay as they are.
C14_StakeBoundsReject ==
    [][ \A u \in Users, pid \in 1..MaxPools, amt \in 0..MaxAmt :
          OutsideStakeBounds(u, pid, amt) =>
              /\ DepositReason(u, pid, amt)
                   \in {"Pausable: paused", "Amount below minimum", "Amount exceeds maximum"}
              /\ ~paused => DepositReason(u, pid, amt)
                              = (IF amt < poolInfo[pid].minStakeAmount
                                 THEN "Amount below minimum" ELSE "Amount exceeds maximum")
              /\ ~Deposit(u, pid, amt)
      ]_vars

\* a pool with accrual outstanding, where one deposit is rejected for the
\* minimum and another for the maximum
C14_Witness ==
    \E u \in Users, pid \in Pids :
        /\ blockNumber > poolInfo[pid].lastRewardBlock
        /\ poolInfo[pid].totalStaked > 0
        /\ totalAllocPoint > 0
        /\ \E amt \in 0..MaxAmt : DepositReason(u, pid, amt) = "Amount below minimum"
        /\ \E amt \in 0..MaxAmt : DepositReason(u, pid, amt) = "Amount exceeds maximum"

\* C16: addPool, setPool, updateRewardPerBlock, pause and unpause by a caller
\* other than the owner are rejected and are no step of the system; every
\* step that changes a pool weight, totalAllocPoint, rewardPerBlock, the
\* number of pools or the paused flag is one of these calls by the owner.
C16_AdminIsOwnerOnly ==
    [][ /\ \A c \in Callers \ {Owner}, w \in BOOLEAN :
             /\ AddPoolReason(c, w) = "Ownable: caller is not the owner"
             /\ UpdateRewardPerBlockReason(c) = "Ownable: caller is not the owner"
             /\ PauseReason(c) = "Ownable: caller is not the owner"
             /\ UnpauseReason(c) = "Ownable: caller is not the owner"
             /\ ~Pause(c)
             /\ ~Unpause(c)
             /\ \A r \in 1..MaxRate : ~UpdateRewardPerBlock(c, r)
             /\ \A pid \in 1..MaxPools, a \in 0..MaxAlloc :
                    /\ SetPoolReason(c, pid, w) = "Ownable: caller is not the owner"
                    /\ ~SetPool(c, pid, a, w)
             /\ \A a \in 0..MaxAlloc, t \in Tokens, lim \in StakeLimits :
                    ~AddPool(c, a, t, lim[1], lim[2], w)
        /\ (\/ totalAllocPoint' # totalAllocPoint
            \/ rewardPerBlock' # rewardPerBlock
            \/ paused' # paused
            \/ Len(poolInfo') # Len(poolInfo)
            \/ \E pid \in Pids : poolInfo'[pid].allocPoint # poolInfo[pid].allocPoint)
           => \/ Pause(Owner)
              \/ Unpause(Owner)
              \/ \E r \in 1..MaxRate : UpdateRewardPerBlock(Owner, r)
              \/ \E pid \in 1..MaxPools, a \in 0..MaxAlloc, w \in BOOLEAN :
                    SetPool(Owner, pid, a, w)
              \/ \E a \in 0..MaxAlloc, t \in Tokens, lim \in StakeLimits, w \in BOOLEAN :
                    AddPool(Owner, a, t, lim[1], lim[2], w)
      ]_vars

\* the owner has added a pool, raised the rate and paused the system
C16_Witness ==
    /\ paused
    /\ rewardPerBlock = MaxRate
    /\ Len(poolInfo) > 0
    /\ totalAllocPoint > 0
    /\ \A c \in Users : UnpauseReason(c) = "Ownable: caller is not the owner"

\* C17: withdraw of more than the caller's position is rejected by the
\* balance test, before the pool is settled, and no step of the system is
\* such a withdraw: nothing is paid, returned or advanced.
C17_WithdrawAbovePositionRejected ==
    [][ \A u \in Users, pid \in 1..MaxPools, amt \in 0..(MaxAmt + 1) :
          (pid \in Pids /\ amt > userInfo[pid][u].amount) =>
              /\ WithdrawReason(u, pid, amt) = "Insufficient balance"
              /\ ~Withdraw(u, pid, amt)
      ]_vars

\* a staked position with reward outstanding in a pool with accrual
\* outstanding, and a withdraw above it is rejected
C17_Witness ==
    \E u \in Users, pid \in Pids :
        /\ userInfo[pid][u].amount > 0
        /\ userInfo[pid][u].amount < MaxAmt
        /\ blockNumber > poolInfo[pid].lastRewardBlock
        /\ pendingReward(pid, u) > 0
        /\ WithdrawReason(u, pid, MaxAmt) = "Insufficient balance"
        /\ WithdrawReason(u, pid, userInfo[pid][u].amount) = "ok"

\* the stake bounds of deposit hold for (u, pid, amt) and u owns the tokens
WithinStakeBounds(u, pid, amt) ==
    /\ pid \in Pids
    /\ amt >= poolInfo[pid].minStakeAmount
    /\ userInfo[pid][u].amount + amt <= poolInfo[pid].maxStakeAmount
    /\ balances[poolInfo[pid].lpToken][u] >= amt

\* C15: while paused every deposit is rejected for the pause, which is no
\* step; and right after the owner's unpause every deposit that satisfies
\* the stake bounds (by a user who owns the tokens) is accepted.
C15_DepositSucceedsAfterUnpause ==
    [][ /\ paused => \A u \in Users, pid \in 1..MaxPools, amt \in 0..MaxAmt :
                         /\ DepositReason(u, pid, amt) = "Pausable: paused"
                         /\ ~Deposit(u, pid, amt)
        /\ Unpause(Owner) =>
             \A u \in Users, pid \in 1..MaxPools, amt \in 0..MaxAmt :
                 WithinStakeBounds(u, pid, amt) => DepositReason(u, pid, amt)' = "ok"
      ]_vars

\* C18: a deposit whose pull of the stake token fails (the caller owns less
\* than amt) is rejected, and no step of the system is such a deposit: the
\* pool's accTokenPerShare and lastRewardBlock and the position's fields keep
\* the values they had before the call.
C18_FailedPullAborts ==
    [][ \A u \in Users, pid \in 1..MaxPools, amt \in 0..MaxAmt :
          (pid \in Pids /\ balances[poolInfo[pid].lpToken][u] < amt) =>
              /\ DepositReason(u, pid, amt) # "ok"
              /\ ~Deposit(u, pid, amt)
      ]_vars

\* a deposit within the stake bounds into a pool with accrual outstanding, by
\* a user with a position and reward outstanding, fails at the pull: the
\* call would have settled the pool and carried the reward before the pull
C18_Witness ==
    \E u \in Users, pid \in Pids, amt \in 1..MaxAmt :
        /\ DepositReason(u, pid, amt) = "ERC20: transfer amount exceeds balance"
        /\ userInfo[pid][u].amount > 0
        /\ blockNumber > poolInfo[pid].lastRewardBlock
        /\ UpdatedPool(poolInfo[pid]).accTokenPerShare > poolInfo[pid].accTokenPerShare
        /\ pendingReward(pid, u) > userInfo[pid][u].pendingRewards

\* the fields of a position that C19 names
SettledFields(user) ==
    [amount |-> user.amount, rewardDebt |-> user.rewardDebt,
     pendingRewards |-> user.pendingRewards]

\* C19: in deposit, withdraw, harvest and emergencyWithdraw the position's
\* amount, rewardDebt and pendingRewards and the pool's totalStaked hold, at
\* the moment the token transfer is issued, the values they have when the
\* operation completes.
C19_StateFinalBeforeTransfer ==
    [][ \A u \in Users, pid \in 1..MaxPools :
          /\ \A amt \in 0..MaxAmt :
               /\ Deposit(u, pid, amt) =>
                    LET pool == UpdatedPool(poolInfo[pid]) IN
                    /\ SettledFields(DepositUserAtPull(userInfo[pid][u], pool, amt))
                         = SettledFields(userInfo'[pid][u])
                    /\ DepositPoolAtPull(pool, amt).totalStaked = poolInfo'[pid].totalStaked
               /\ Withdraw(u, pid, amt) =>
                    LET pool == UpdatedPool(poolInfo[pid]) IN
                    /\ SettledFields(WithdrawUserAtTransfer(userInfo[pid][u], pool, amt))
                         = SettledFields(userInfo'[pid][u])
                    /\ WithdrawPoolAtTransfer(pool, amt).totalStaked = poolInfo'[pid].totalStaked
          /\ Harvest(u, pid) =>
               SettledFields(HarvestUserAtTransfer(userInfo[pid][u], UpdatedPool(poolInfo[pid])))
                 = SettledFields(userInfo'[pid][u])
          /\ EmergencyWithdraw(u, pid) =>
               /\ SettledFields(EmergencyUserAtTransfer(userInfo[pid][u]))
                    = SettledFields(userInfo'[pid][u])
               /\ EmergencyPoolAtTransfer(poolInfo[pid], userInfo[pid][u].amount).totalStaked
                    = poolInfo'[pid].totalStaked
      ]_vars

\* C20: while withdraw, harvest or emergencyWithdraw is suspended at its
\* token transfer (storage then holds the values the step leaves), no
\* state-changing function of the contract can execute: a call of any of
\* them is rejected.
C20_NoCallWhileSuspended ==
    [][ (HasEvent("Withdraw")' \/ HasEvent("RewardPaid")' \/ HasEvent("EmergencyWithdraw")') =>
          /\ \A u \in Users, pid \in 1..MaxPools :
               /\ ReentrantReason("harvest", HarvestReason(u, pid))' # "ok"
               /\ ReentrantReason("emergencyWithdraw", EmergencyReason(u, pid))' # "ok"
               /\ ReentrantReason("updatePool", UpdatePoolReason(pid))' # "ok"
               /\ \A amt \in 0..MaxAmt :
                    /\ ReentrantReason("deposit", DepositReason(u, pid, amt))' # "ok"
                    /\ ReentrantReason("withdraw", WithdrawReason(u, pid, amt))' # "ok"
          /\ ReentrantReason("massUpdatePools", MassUpdateReason)' # "ok"
          /\ \A c \in Callers, w \in BOOLEAN :
               /\ ReentrantReason("addPool", AddPoolReason(c, w))' # "ok"
               /\ ReentrantReason("updateRewardPerBlock", UpdateRewardPerBlockReason(c))' # "ok"
               /\ \A pid \in 1..MaxPools :
                    ReentrantReason("setPool", SetPoolReason(c, pid, w))' # "ok"
      ]_vars

\* the smaller of two numbers
Smaller(a, b) == IF a < b THEN a ELSE b

\* reward tokens the step hands to u beyond the returned stake amt of pool pid
RewardReceived(u, pid, amt) ==
    balances'[RewardToken][u] - balances[RewardToken][u]
      - (IF poolInfo[pid].lpToken = RewardToken THEN amt ELSE 0)

\* C21: when withdraw or harvest computes a pending reward P > 0 while the
\* farm holds R reward tokens, the call succeeds and hands the user exactly
\* min(P, R) reward tokens: a reserve smaller than P never makes withdraw or
\* harvest fail.
C21_RewardLegPaysMinAndSucceeds ==
    [][ \A u \in Users, pid \in 1..MaxPools :
          (pid \in Pids /\ pendingReward(pid, u) > 0) =>
              LET P == pendingReward(pid, u)
                  R == balances[RewardToken][Farm]
              IN /\ HarvestReason(u, pid) = "ok"
                 /\ Harvest(u, pid) => RewardReceived(u, pid, 0) = Smaller(P, R)
                 /\ \A amt \in 0..userInfo[pid][u].amount :
                      /\ WithdrawReason(u, pid, amt) = "ok"
                      /\ Withdraw(u, pid, amt) => RewardReceived(u, pid, amt) = Smaller(P, R)
      ]_vars

\* number of records of the given kind that the step appends to the log
Appended(name) ==
    Cardinality({i \in 1..Len(emitted') : emitted'[i].name = name})

\* deposit, withdraw and emergencyWithdraw append one record of their kind
\* with the caller, the pool and the amount, as the last record of the call;
\* a step that appends a record is a call whose checks pass
StakeOpsRecordOnce ==
    /\ \A u \in Users, pid \in 1..MaxPools :
         /\ \A amt \in 0..MaxAmt :
              /\ Deposit(u, pid, amt) =>
                   /\ Appended("Deposit") = 1
                   /\ emitted' = <<Event("Deposit", u, pid, amt)>>
              /\ Withdraw(u, pid, amt) =>
                   /\ Appended("Withdraw") = 1
                   /\ emitted'[Len(emitted')] = Event("Withdraw", u, pid, amt)
         /\ EmergencyWithdraw(u, pid) =>
              /\ Appended("EmergencyWithdraw") = 1
              /\ emitted' = <<Event("EmergencyWithdraw", u, pid, userInfo[pid][u].amount)>>
    /\ emitted' # <<>> =>
         \E u \in Users, pid \in Pids :
             /\ emitted'[1].user = u /\ emitted'[1].pid = pid
             /\ \/ \E amt \in 0..MaxAmt : DepositReason(u, pid, amt) = "ok" /\ Deposit(u, pid, amt)
                \/ \E amt \in 0..MaxAmt : WithdrawReason(u, pid, amt) = "ok" /\ Withdraw(u, pid, amt)
                \/ HarvestReason(u, pid) = "ok" /\ Harvest(u, pid)
                \/ EmergencyReason(u, pid) = "ok" /\ EmergencyWithdraw(u, pid)

C23_AmountAtMostMaxStake ==
    \A pid \in Pids, u \in Users :
        userInfo[pid][u].amount <= poolInfo[pid].maxStakeAmount

\* a position filled up to the maximum by a second deposit (the first one
\* left reward carried in pendingRewards), in a pool whose minimum is lower,
\* while its owner holds enough of the stake token to deposit again
C23_Witness ==
    \E pid \in Pids, u \in Users :
        /\ userInfo[pid][u].amount = poolInfo[pid].maxStakeAmount
        /\ poolInfo[pid].minStakeAmount < poolInfo[pid].maxStakeAmount
        /\ userInfo[pid][u].pendingRewards > 0
        /\ HasEvent("Deposit")
        /\ balances[poolInfo[pid].lpToken][u] >= poolInfo[pid].minStakeAmount
        /\ DepositReason(u, pid, poolInfo[pid].minStakeAmount) = "Amount exceeds maximum"

\* C24: in every reachable state a position with a non-zero staked amount
\* holds at least the minStakeAmount of its pool, also after a partial
\* withdrawal.
C24_AmountAtLeastMinStake ==
    \A pid \in Pids, u \in Users :
        userInfo[pid][u].amount > 0 =>
            userInfo[pid][u].amount >= poolInfo[pid].minStakeAmount

\* the weights of the registered pools, by pool
Weights == [pid \in Pids |-> poolInfo[pid].allocPoint]

\* C25: in every reachable state totalAllocPoint equals the sum of allocPoint
\* over the registered pools, after any sequence of addPool and setPool.
C25_TotalIsSumOfWeights == totalAllocPoint = SumOver(Weights, Pids)

\* two pools of which the first was re-weighted to 0 by setPool after it had
\* accrued reward, which it can only have done with a positive weight
C25_Witness ==
    /\ Len(poolInfo) = 2
    /\ poolInfo[1].allocPoint = 0
    /\ poolInfo[1].accTokenPerShare > 0
    /\ poolInfo[2].allocPoint = 1
    /\ totalAllocPoint = 1

\* C26: a successful addPool raises the pool count by one; the new last pool
\* has the given weight, stake token, minimum and maximum stake, a zero
\* accumulator, no stake and lastRewardBlock = max(block.number, startBlock);
\* totalAllocPoint grows by the given weight and no existing pool's stake
\* token, stake limits, weight or totalStaked changes.
C26_AddPoolAppendsFreshPool ==
    [][ \A c \in Callers, a \in 0..MaxAlloc, t \in Tokens, lim \in StakeLimits, w \in BOOLEAN :
          AddPool(c, a, t, lim[1], lim[2], w) =>
              /\ Len(poolInfo') = Len(poolInfo) + 1
              /\ LET new == poolInfo'[Len(poolInfo')]
                 IN /\ new.allocPoint = a
                    /\ new.lpToken = t
                    /\ new.minStakeAmount = lim[1]
                    /\ new.maxStakeAmount = lim[2]
                    /\ new.accTokenPerShare = 0
                    /\ new.totalStaked = 0
                    /\ new.lastRewardBlock >= blockNumber
                    /\ new.lastRewardBlock >= startBlock
                    /\ new.lastRewardBlock \in {blockNumber, startBlock}
              /\ totalAllocPoint' = totalAllocPoint + a
              /\ \A pid \in Pids :
                    /\ poolInfo'[pid].lpToken = poolInfo[pid].lpToken
                    /\ poolInfo'[pid].minStakeAmount = poolInfo[pid].minStakeAmount
                    /\ poolInfo'[pid].maxStakeAmount = poolInfo[pid].maxStakeAmount
                    /\ poolInfo'[pid].allocPoint = poolInfo[pid].allocPoint
                    /\ poolInfo'[pid].totalStaked = poolInfo[pid].totalStaked
      ]_vars

\* a second pool of another stake token, just added after startBlock with
\* settlement of the first pool, which holds stake and weight
C26_Witness ==
    /\ Len(poolInfo) = 2
    /\ poolInfo[2].lpToken # poolInfo[1].lpToken
    /\ poolInfo[2].lastRewardBlock = blockNumber
    /\ blockNumber > startBlock
    /\ poolInfo[2].accTokenPerShare = 0
    /\ poolInfo[2].totalStaked = 0
    /\ poolInfo[1].totalStaked > 0
    /\ poolInfo[1].accTokenPerShare > 0
    /\ poolInfo[1].lastRewardBlock = blockNumber
    /\ totalAllocPoint = 2

\* C27: the registry is append-only: the pool count never decreases and the
\* pool at an index keeps its stake token, minimum and maximum stake for
\* ever; no step deletes a pool.
C27_RegistryAppendOnly ==
    [][ /\ Len(poolInfo') >= Len(poolInfo)
        /\ \A pid \in Pids :
              /\ poolInfo'[pid].lpToken = poolInfo[pid].lpToken
              /\ poolInfo'[pid].minStakeAmount = poolInfo[pid].minStakeAmount
              /\ poolInfo'[pid].maxStakeAmount = poolInfo[pid].maxStakeAmount
      ]_vars

\* two pools that differ in stake token and in stake limits, the first of
\* which has been settled, staked in and re-weighted since it was added
C27_Witness ==
    /\ Len(poolInfo) = 2
    /\ poolInfo[1].lpToken # poolInfo[2].lpToken
    /\ poolInfo[1].minStakeAmount # poolInfo[2].minStakeAmount
    /\ poolInfo[1].allocPoint = 0
    /\ poolInfo[1].accTokenPerShare > 0
    /\ poolInfo[1].totalStaked > 0

C29_NoAccrualBeforeStart ==
    \A pid \in Pids :
        /\ poolInfo[pid].lastRewardBlock >= startBlock
        /\ blockNumber <= startBlock =>
             /\ poolInfo[pid].accTokenPerShare = 0
             /\ \A u \in Users : pendingReward(pid, u) = 0
        /\ blockNumber > startBlock =>
             poolInfo[pid].accTokenPerShare
                <= getMultiplier(startBlock, blockNumber) * MaxRate * ACC_PRECISION

\* startBlock is reached while a pool with weight holds a stake deposited
\* in an earlier block, before the start
C29_Witness ==
    \E pid \in Pids, u \in Users :
        /\ blockNumber = startBlock
        /\ userInfo[pid][u].amount > 0
        /\ userInfo[pid][u].lastStakeTime < blockTimestamp
        /\ poolInfo[pid].allocPoint > 0
        /\ poolInfo[pid].totalStaked > 0

\* C30: updatePool at block.number = now leaves the pool as it is when now <=
\* lastRewardBlock, so that a second settlement in the same block changes
\* nothing; with totalStaked = 0 it sets lastRewardBlock = now and keeps
\* accTokenPerShare, and the first depositor after the idle interval is
\* credited nothing for it; otherwise it adds
\* floor(floor(multiplier * rewardPerBlock * allocPoint / totalAllocPoint)
\*       * precision / totalStaked)
\* to accTokenPerShare and sets lastRewardBlock = now. It writes nothing else.
C30_UpdatePoolExact ==
    [][ \A c \in Users, pid \in 1..MaxPools :
          /\ UpdatePool(c, pid) =>
               LET old == poolInfo[pid]
                   new == poolInfo'[pid]
                   reward == (getMultiplier(old.lastRewardBlock, blockNumber)
                                * rewardPerBlock * old.allocPoint) \div totalAllocPoint
               IN /\ blockNumber <= old.lastRewardBlock => new = old
                  /\ (blockNumber > old.lastRewardBlock /\ old.totalStaked = 0) =>
                        new = [old EXCEPT !.lastRewardBlock = blockNumber]
                  /\ (blockNumber > old.lastRewardBlock /\ old.totalStaked > 0) =>
                        new = [old EXCEPT
                                 !.lastRewardBlock = blockNumber,
                                 !.accTokenPerShare =
                                     old.accTokenPerShare
                                       + (reward * ACC_PRECISION) \div old.totalStaked]
                  /\ (UpdatePoolReason(pid) = "ok" /\ UpdatedPool(poolInfo[pid]) = poolInfo[pid])'
                  /\ \A other \in Pids \ {pid} : poolInfo'[other] = poolInfo[other]
                  /\ Len(poolInfo') = Len(poolInfo)
                  /\ UNCHANGED <<userInfo, balances, totalAllocPoint, rewardPerBlock>>
          /\ \A amt \in 0..MaxAmt :
               (Deposit(c, pid, amt) /\ poolInfo[pid].totalStaked = 0) =>
                   /\ poolInfo'[pid].accTokenPerShare = poolInfo[pid].accTokenPerShare
                   /\ pendingReward(pid, c)' = userInfo[pid][c].pendingRewards
      ]_vars

\* a staked pool with weight has been settled at the last block with the
\* reward of exactly one block after the bonus, and can be settled again
C30_Witness ==
    \E pid \in Pids :
        /\ emitted = <<>>
        /\ poolInfo[pid].totalStaked > 0
        /\ poolInfo[pid].lastRewardBlock = blockNumber
        /\ blockNumber = MaxBlock
        /\ poolInfo[pid].accTokenPerShare = (rewardPerBlock * ACC_PRECISION) \div poolInfo[pid].totalStaked
        /\ poolInfo[pid].allocPoint > 0
        /\ UpdatePoolReason(pid) = "ok"

\* C31: getMultiplier is additive over adjacent ranges: for all a <= b <= c,
\* getMultiplier(a, b) + getMultiplier(b, c) = getMultiplier(a, c), wherever
\* bonusEndBlock lies; in particular the multiplier of a pool's unsettled
\* range is the sum over any split of it.
C31_MultiplierAdditive ==
    /\ \A e \in 0..MaxUnit, a \in 0..MaxUnit, b \in 0..MaxUnit, c \in 0..MaxUnit :
          (a <= b /\ b <= c) =>
              getMultiplierAt(e, a, b) + getMultiplierAt(e, b, c) = getMultiplierAt(e, a, c)
    /\ \A pid \in Pids :
          \A b \in poolInfo[pid].lastRewardBlock..blockNumber :
              getMultiplier(poolInfo[pid].lastRewardBlock, b) + getMultiplier(b, blockNumber)
                  = getMultiplier(poolInfo[pid].lastRewardBlock, blockNumber)

\* a staked pool untouched from before bonusEndBlock until after it: the
\* split of its unsettled range at bonusEndBlock has a bonus part and a
\* plain part
C31_Witness ==
    \E pid \in Pids :
        /\ poolInfo[pid].totalStaked > 0
        /\ poolInfo[pid].lastRewardBlock < bonusEndBlock
        /\ bonusEndBlock < blockNumber
        /\ getMultiplier(poolInfo[pid].lastRewardBlock, bonusEndBlock) = BONUS_MULTIPLIER
        /\ getMultiplier(bonusEndBlock, blockNumber) = 1

\* C32: deposit, withdraw and harvest settle their pool before they read or
\* write the position: right after any of them succeeds at block.number =
\* now the pool's lastRewardBlock is at least now, its accTokenPerShare is the
\* accumulator settled at now, and the position's rewardDebt is its amount
\* times that accumulator.
C32_SettledBeforePosition ==
    [][ \A u \in Users, pid \in 1..MaxPools :
          ((\E amt \in 0..MaxAmt : Deposit(u, pid, amt) \/ Withdraw(u, pid, amt))
              \/ Harvest(u, pid)) =>
              /\ poolInfo'[pid].lastRewardBlock >= blockNumber
              /\ poolInfo'[pid].accTokenPerShare = ViewAcc(pid)
              /\ userInfo'[pid][u].rewardDebt
                    = (userInfo'[pid][u].amount * ViewAcc(pid)) \div ACC_PRECISION
      ]_vars

\* a top-up has just settled its pool, which had accrual outstanding, and
\* derived the debt of the larger position from the settled accumulator
C32_Witness ==
    \E u \in Users, pid \in Pids :
        /\ HasEvent("Deposit")
        /\ poolInfo[pid].lastRewardBlock = blockNumber
        /\ blockNumber > startBlock
        /\ poolInfo[pid].accTokenPerShare > 0
        /\ userInfo[pid][u].lastStakeTime = blockTimestamp
        /\ userInfo[pid][u].pendingRewards > 0
        /\ userInfo[pid][u].rewardDebt > 0
        /\ userInfo[pid][u].rewardDebt = Gross(userInfo[pid][u].amount, poolInfo[pid])

\* C33: right after a successful withdraw or harvest the caller's pending
\* reward on that pool, at the same block, is 0: pendingRewards is 0 and
\* rewardDebt is amount * accTokenPerShare / precision, also when the computed
\* pending was 0 and when the farm held less reward than the pending (the
\* shortfall is not kept as a claim).
C33_NothingClaimableAfterPayout ==
    [][ \A u \in Users, pid \in 1..MaxPools :
          ((\E amt \in 0..MaxAmt : Withdraw(u, pid, amt)) \/ Harvest(u, pid)) =>
              /\ userInfo'[pid][u].pendingRewards = 0
              /\ userInfo'[pid][u].rewardDebt
                    = (userInfo'[pid][u].amount * poolInfo'[pid].accTokenPerShare)
                        \div ACC_PRECISION
              /\ (pendingReward(pid, u) = 0)'
      ]_vars

\* a payout from a plain-token pool was short: the recorded pending exceeds
\* the reward the farm ever held, the farm is left without reward tokens and
\* the staker, still in the pool, has nothing pending
C33_Witness ==
    \E u \in Users, pid \in Pids :
        /\ poolInfo[pid].lpToken # RewardToken
        /\ emitted # <<>>
        /\ emitted[1] = Event("RewardPaid", u, pid, emitted[1].amount)
        /\ emitted[1].amount > InitReserve
        /\ balances[RewardToken][Farm] = 0
        /\ userInfo[pid][u].amount > 0
        /\ pendingReward(pid, u) = 0

\* C34: a deposit pays out nothing and loses nothing: no reward token leaves
\* the farm or reaches a user (in a pool of the plain stake token no
\* reward-token balance changes at all), and the depositor's pending reward
\* right after the deposit equals the pending reward at the same block just
\* before it.
C34_DepositKeepsPending ==
    [][ \A u \in Users, pid \in 1..MaxPools, amt \in 0..MaxAmt :
          Deposit(u, pid, amt) =>
              /\ pendingReward(pid, u)' = pendingReward(pid, u)
              /\ pendingReward(pid, u) >= 0
              /\ balances'[RewardToken][Farm] >= balances[RewardToken][Farm]
              /\ \A h \in Users : balances'[RewardToken][h] <= balances[RewardToken][h]
              /\ poolInfo[pid].lpToken # RewardToken =>
                    balances'[RewardToken] = balances[RewardToken]
      ]_vars

\* a top-up at a block with accrual outstanding left the whole pending
\* reward of the depositor in pendingRewards, with the farm's reward intact
C34_Witness ==
    \E u \in Users, pid \in Pids :
        /\ emitted = <<Event("Deposit", u, pid, 1)>>
        /\ userInfo[pid][u].amount = 2
        /\ userInfo[pid][u].pendingRewards > 0
        /\ pendingReward(pid, u) = userInfo[pid][u].pendingRewards
        /\ poolInfo[pid].lpToken # RewardToken
        /\ balances[RewardToken][Farm] = InitReserve

\* C35: emergencyWithdraw settles nothing: it leaves the pool's
\* accTokenPerShare and lastRewardBlock, the farm's reward reserve,
\* totalAllocPoint and rewardPerBlock as they are, and it succeeds whatever
\* the paused flag, the reward reserve, totalAllocPoint (0 included) and the
\* blocks elapsed since the last settlement.
C35_EmergencyWithdrawNeedsNothing ==
    [][ \A u \in Users, pid \in 1..MaxPools :
          pid \in Pids =>
              /\ EmergencyReason(u, pid) = "ok"
              /\ EmergencyWithdraw(u, pid) =>
                    /\ poolInfo'[pid].accTokenPerShare = poolInfo[pid].accTokenPerShare
                    /\ poolInfo'[pid].lastRewardBlock = poolInfo[pid].lastRewardBlock
                    /\ UNCHANGED <<totalAllocPoint, rewardPerBlock, paused>>
                    /\ balances'[RewardToken][Farm]
                          = balances[RewardToken][Farm]
                              - (IF poolInfo[pid].lpToken = RewardToken
                                 THEN userInfo[pid][u].amount ELSE 0)
      ]_vars

\* every other user's position in every pool, and pending reward at the
\* block of the step (where the view returns one), are the same after the
\* step as before it
OthersUntouched(u) ==
    \A v \in Users \ {u}, q \in Pids :
        /\ userInfo'[q][v] = userInfo[q][v]
        /\ pendingReward(q, v) # -1 => pendingReward(q, v)' = pendingReward(q, v)

\* C36: a deposit, withdraw, harvest or emergencyWithdraw by one user never
\* changes the position of another user (amount, rewardDebt, pendingRewards,
\* lastStakeTime) in any pool, nor another user's pending reward evaluated at
\* the block of the operation.
C36_UserIsolation ==
    [][ \A u \in Users, pid \in 1..MaxPools :
          ((\E amt \in 0..MaxAmt : Deposit(u, pid, amt) \/ Withdraw(u, pid, amt))
              \/ Harvest(u, pid) \/ EmergencyWithdraw(u, pid)) => OthersUntouched(u)
      ]_vars

\* the users who have deposited
Stakers == {u \in Users : userInfo[1][u].lastStakeTime > 0}

\* the block from which the pool of SpecCredit accrues: the block of its
\* first deposit, or startBlock when that is later (block.timestamp is
\* block.number + 1)
AccrualFrom ==
    LET first == CHOOSE b \in 0..MaxBlock :
                    /\ \E u \in Stakers : userInfo[1][u].lastStakeTime = b + 1
                    /\ \A u \in Stakers : userInfo[1][u].lastStakeTime >= b + 1
    IN IF first > startBlock THEN first ELSE startBlock

\* the sum of the reward values computed by the settlements of the pool of
\* SpecCredit: it holds all the weight and is never empty once staked in, so
\* every settlement from AccrualFrom on computes multiplier * rewardPerBlock
RewardAllocated ==
    IF Stakers = {} THEN 0
    ELSE getMultiplier(AccrualFrom, poolInfo[1].lastRewardBlock) * rewardPerBlock

\* the pendingOf of every position of pool 1, by user
PendingNow == [u \in Users |-> PendingOf(userInfo[1][u], poolInfo[1])]

\* C37: in every reachable state the reward credited to the users of a pool
\* (the pending amounts computed by its withdraw and harvest calls so far
\* plus the pendingOf of every position) is at most the reward allocated to
\* the pool by its settlements. The reward tokens that have left the farm
\* are a part of the pending amounts computed so far.
C37_CreditedAtMostAllocated ==
    Len(poolInfo) = 1 =>
        (InitReserve - balances[RewardToken][Farm]) + SumOver(PendingNow, Users)
            <= RewardAllocated

\* the stake of every pool that accepts token t, by pool
StakedIn(t) ==
    [pid \in Pids |-> IF poolInfo[pid].lpToken = t THEN poolInfo[pid].totalStaked ELSE 0]

\* C38: in every reachable state the farm's balance of every stake token is
\* at least the sum of totalStaked over the pools that accept it, the reward
\* token included, so that no withdraw or emergencyWithdraw of a staked
\* amount fails for lack of custody.
C38_PrincipalInCustody ==
    /\ \A t \in Tokens : balances[t][Farm] >= SumOver(StakedIn(t), Pids)
    /\ \A u \in Users, pid \in Pids :
          balances[poolInfo[pid].lpToken][Farm] >= userInfo[pid][u].amount

\* the accumulator of pool after one settlement at t2, and after settlements
\* at t1, at t1b and at t2, from the state as it is
SettledOnce(pool, t2) == UpdatedPoolAt(t2, pool).accTokenPerShare
SettledVia(pool, t1, t1b, t2) ==
    UpdatedPoolAt(t2, UpdatedPoolAt(t1b, UpdatedPoolAt(t1, pool))).accTokenPerShare

\* the blocks at which a pool with unchanged stake, weight, total weight and
\* rate can be settled: lastRewardBlock <= t1 <= t1b <= t2
SettlePoints(pool) ==
    {t \in (0..MaxUnit) \X (0..MaxUnit) \X (0..MaxUnit) :
        pool.lastRewardBlock <= t[1] /\ t[1] <= t[2] /\ t[2] <= t[3]}

\* C39 as stated: for a pool whose totalStaked, allocPoint, totalAllocPoint
\* and rewardPerBlock stay as they are, settling at t2 reaches the same
\* accTokenPerShare whether or not the pool is also settled at blocks in
\* between.
C39_SettlementPathIndependent ==
    \A pid \in Pids :
        totalAllocPoint > 0 =>
            \A t \in SettlePoints(poolInfo[pid]) :
                SettledVia(poolInfo[pid], t[1], t[2], t[3]) = SettledOnce(poolInfo[pid], t[3])

\* C39, amended: with settlements in between the accumulator reached at t2
\* is never above the one reached by settling once at t2, and with k
\* settlements in all (here up to 3) it is below it by less than
\* (k - 1) * precision / totalStaked + k; lastRewardBlock is t2 either way.
C39_SettlementPathWithinTruncation ==
    \A pid \in Pids :
        totalAllocPoint > 0 =>
            \A t \in SettlePoints(poolInfo[pid]) :
                LET pool == poolInfo[pid]
                    via == SettledVia(pool, t[1], t[2], t[3])
                    once == SettledOnce(pool, t[3])
                IN /\ via <= once
                   /\ (once - via - 3) * pool.totalStaked < 2 * ACC_PRECISION
                   /\ pool.totalStaked = 0 => via = once
                   /\ UpdatedPoolAt(t[3], UpdatedPoolAt(t[2], UpdatedPoolAt(t[1], pool))).lastRewardBlock
                        = UpdatedPoolAt(t[3], pool).lastRewardBlock

\* a pool staked with 3 has been settled at the end of the bonus and again
\* after it: its accumulator is below what one settlement of the whole
\* range from startBlock would have given
C39_Witness ==
    \E pid \in Pids :
        /\ poolInfo[pid].totalStaked = 3
        /\ poolInfo[pid].lastRewardBlock = MaxBlock
        /\ poolInfo[pid].accTokenPerShare > 0
        /\ poolInfo[pid].accTokenPerShare
              < (getMultiplier(startBlock, MaxBlock) * rewardPerBlock * ACC_PRECISION) \div 3
        /\ \A u \in Users : userInfo[1][u].lastStakeTime = startBlock + 1

====
